---- MODULE Spec2Model ----
(***************************************************************************)
(* The cannon orchestrator (pkg/cannon/cannon.go): start-up, the beacon    *)
(* readiness callback that builds and starts the six event derivers, the   *)
(* serial sink fan-out, the clock-drift job and shutdown; together with    *)
(* the extraction loop of a deriver, its checkpoint iterator and the       *)
(* coordinator's cursor, which live in packages of the repository that are *)
(* not part of the sources at hand and are modelled from the specification *)
(* (sections 4.2 to 4.4); and the time window of pkg/wallclock.            *)
(***************************************************************************)
EXTENDS Integers, Sequences, FiniteSets, TLC

(* ------------------------------ bounds -------------------------------- *)

\* Positions are 0..MaxPos; the finalized checkpoint ranges over them.
MaxPos == 2
\* A block holds 0..MaxEvents sub-events of one kind.
MaxEvents == 1
\* The configured list of sinks has 0..MaxSinks entries.
MaxSinks == 2
\* At most MaxEnabled of the six derivers are enabled in the configuration.
MaxEnabled == 1
\* Instants are 0..MaxTime; a time window starts and ends at one of them.
MaxTime == 3
\* At most MaxFaults transient RPC errors occur in one run.
MaxFaults == 1
\* The time server reports one of 0..MaxDrift offsets (DriftOffsets).
MaxDrift == 1

(* ------------------------------ values -------------------------------- *)

\* The event-type tags, in the order the readiness callback builds the derivers.
CannonTypes ==
    << "BEACON_API_ETH_V2_BEACON_BLOCK_ATTESTER_SLASHING",
       "BEACON_API_ETH_V2_BEACON_BLOCK_PROPOSER_SLASHING",
       "BEACON_API_ETH_V2_BEACON_BLOCK_VOLUNTARY_EXIT",
       "BEACON_API_ETH_V2_BEACON_BLOCK_DEPOSIT",
       "BEACON_API_ETH_V2_BEACON_BLOCK_BLS_TO_EXECUTION_CHANGE",
       "BEACON_API_ETH_V2_BEACON_BLOCK_EXECUTION_TRANSACTION" >>

NumDerivers == 6

DeriverIds == 1..NumDerivers

TagSet == {CannonTypes[k] : k \in DeriverIds}

\* The network the beacon node is attached to (beacon.Metadata().Network).
Networks == {[name |-> "mainnet", id |-> 1], [name |-> "holesky", id |-> 17000]}

\* time.Duration counts nanoseconds; Duration.Milliseconds (line 205) divides by this.
NsPerMs == 1000000

\* The clock offsets ntp.Query reports (line 243): multiples of 1.5 ms, for a clock
\* that is not ahead of the time server's.
DriftOffsets == {k * (3 * (NsPerMs \div 2)) : k \in 0..MaxDrift}

\* No ClientMeta: a nil pointer, an event batch that was never decorated.
NoMeta == [nil |-> TRUE]

NoLease == [kind |-> "none", pos |-> -1, observed_fin |-> -1, prev |-> -1]

NoBatch == -1

Max(a, b) == IF a >= b THEN a ELSE b

VARIABLES
    config,         \* Config: nSinks (length of c.sinks), enabled (deriver ids), peer
    network,        \* beacon.Metadata().Network
    startPc,        \* position of Cannon.Start
    startIdx,       \* number of sinks the sink loop Start is in has dealt with
    sinkState,      \* per sink: "new", "started", "stopped"
    readyPc,        \* the OnReady callback: "none", "registered", "running", "done", "failed"
    readyIdx,       \* number of derivers the callback's loop has dealt with
    eventDerivers,  \* c.eventDerivers: << >> is nil
    dpc,            \* per deriver: position of its extraction loop
    lease,          \* per deriver: what its iterator's last next() returned
    batch,          \* per deriver: number of events of the batch in hand
    fan,            \* per deriver: the running handleNewDecoratedEvents call
    cursor,         \* coordinator: per event type, next unprocessed position
    peerPc,         \* another instance's deriver of one event type
    peerLease,      \* and the lease its iterator holds
    fin,            \* beacon: finalized checkpoint now reported
    finPeak,        \* highest finalized checkpoint reported so far
    lastEmitted,    \* per event type: the last position a batch was emitted for
    metrics,        \* the counters of c.metrics
    faults,         \* transient errors so far
    readyCall,      \* which call of the callback's loop body comes next (1..3)
    clockDrift,     \* c.clockDrift, in nanoseconds
    cron,           \* the scheduler's syncClockDrift job: pc, and the offset it got
    clientMetas,    \* the ClientMeta objects createNewClientMeta has made
    decoration,     \* per deriver: the ClientMeta stamped on the batch in hand
    window,         \* a wallclock.TimeWindow: start, end
    clock,          \* what time.Now() returns
    active,         \* a call of TimeWindow.Active: pc, the instants it read, its result
    spans           \* the last StartsIn and EndsIn results and the instants they read

vars == << config, network, startPc, startIdx, sinkState, readyPc, readyIdx,
           eventDerivers, dpc, lease, batch, fan, cursor, peerPc, peerLease,
           fin, finPeak, lastEmitted, metrics, faults, readyCall, clockDrift, cron,
           clientMetas, decoration, window, clock, active, spans >>

orchVars == << startPc, startIdx, sinkState, readyPc, readyIdx, readyCall, eventDerivers >>

loopVars == << dpc, lease, batch, decoration, fan >>

driftVars == << clockDrift, cron, clientMetas >>

windowVars == << window, clock, active, spans >>

\* An instant time.Now() was not asked for.
NoRead == -1

\* No call of Active is under way and none has returned.
NoCall == [pc |-> "idle", now1 |-> NoRead, now2 |-> NoRead, result |-> FALSE]

NoSpans == [startsInAt |-> NoRead, startsIn |-> 0, endsInAt |-> NoRead, endsIn |-> 0]

\* No time window is looked at.
NoTimeWindow ==
    /\ window = [start |-> 0, end |-> 0]
    /\ clock = 0
    /\ active = NoCall
    /\ spans = NoSpans

peerVars == << peerPc, peerLease >>

beaconVars == << fin, finPeak >>

inputVars == << config, network >>

\* No handleNewDecoratedEvents call is running.
NoFan == [idx |-> 0, busy |-> FALSE, delivered |-> << >>, failed |-> {},
          counted |-> 0, result |-> "none"]

Running == startPc \notin {"returned_ok", "returned_err"}

(* ------------------------- pkg/cannon/cannon.go ------------------------ *)

\* New (lines 77-88): the state of a freshly constructed Cannon, for every
\* configuration within the bounds.
New ==
    /\ config \in { c \in [nSinks : 0..MaxSinks, enabled : SUBSET DeriverIds,
                           peer : {"none"}] :
                     Cardinality(c.enabled) <= MaxEnabled }
    /\ network \in Networks
    /\ clockDrift = 0
    /\ cron = [pc |-> "off", offset |-> 0]
    /\ clientMetas = << >>
    /\ readyCall = 1
    /\ decoration = [d \in DeriverIds |-> NoMeta]
    /\ startPc = "new"
    /\ startIdx = 0
    /\ sinkState = [s \in 1..config.nSinks |-> "new"]
    /\ readyPc = "none"
    /\ readyIdx = 0
    /\ eventDerivers = << >>
    /\ dpc = [d \in DeriverIds |-> "off"]
    /\ lease = [d \in DeriverIds |-> NoLease]
    /\ batch = [d \in DeriverIds |-> NoBatch]
    /\ fan = [d \in DeriverIds |-> NoFan]
    /\ cursor \in [TagSet -> {0}]
    /\ peerPc = "idle"
    /\ peerLease = NoLease
    /\ fin = 0
    /\ finPeak = 0
    /\ lastEmitted = [t \in TagSet |-> -1]
    /\ metrics = [deriver_location |-> [t \in TagSet |-> -1],
                  sink_errors_total |-> [s \in 1..config.nSinks |-> 0]]
    /\ faults = 0

Init == New /\ NoTimeWindow

(* Cannon.Start, lines 91-144 *)

\* Lines 92-113: the metrics and pprof servers, startBeaconBlockProcessor (lines
\* 267-419, which only registers the readiness callback) and startCrons (lines
\* 218-230, which schedules syncClockDrift and starts the scheduler); Start is
\* then at the head of the loop that starts the sinks.
StartBegin ==
    /\ startPc = "new"
    /\ startPc' = "startSinks"
    /\ startIdx' = 0
    /\ readyPc' = "registered"
    /\ cron' = [cron EXCEPT !.pc = "idle"]
    /\ UNCHANGED << windowVars, inputVars, clockDrift, clientMetas, sinkState, readyIdx, readyCall,
                    eventDerivers, loopVars, cursor, peerVars, beaconVars, lastEmitted,
                    metrics, faults >>

\* Line 117: where Start is after a sink's Start returned an error.
IgnoreSinkStartError(pc) == pc

AfterSinkStartError(pc) == "returned_err"

\* Lines 115-119: sink.Start of the next sink; its error is returned at once.
StartSink(ok) ==
    /\ startPc = "startSinks"
    /\ startIdx < config.nSinks
    /\ sinkState' = [sinkState EXCEPT ![startIdx + 1] = IF ok THEN "started" ELSE "startFailed"]
    /\ startIdx' = startIdx + 1
    /\ startPc' = IF ok THEN startPc ELSE AfterSinkStartError(startPc)
    /\ UNCHANGED << windowVars, inputVars, driftVars, readyPc, readyIdx, readyCall, eventDerivers,
                    loopVars, cursor, peerVars, beaconVars, lastEmitted, metrics, faults >>

\* Lines 115-125: c.beacon.Start is reached when the loop over c.sinks is over.
SinkLoopSkipped(idx) == TRUE

SinkLoopDone(idx) == idx = config.nSinks

\* Lines 121-127: c.beacon.Start, once the loop over the sinks is over.
BeaconStart(ok) ==
    /\ startPc = "startSinks"
    /\ SinkLoopDone(startIdx)
    /\ startPc' = IF ok THEN "waitSignal" ELSE "returned_err"
    /\ UNCHANGED << windowVars, inputVars, driftVars, startIdx, sinkState, readyPc, readyIdx, readyCall,
                    eventDerivers, loopVars, cursor, peerVars, beaconVars, lastEmitted,
                    metrics, faults >>

\* Lines 129-135: SIGTERM or SIGINT arrives; Start goes on to flush the sinks. The
\* context Start was given is handed on as it is and nothing cancels it.
Signal ==
    /\ startPc = "waitSignal"
    /\ startPc' = IF config.nSinks = 0 THEN "returned_ok" ELSE "stopSinks"
    /\ startIdx' = 0
    /\ UNCHANGED << windowVars, inputVars, driftVars, sinkState, readyPc, readyIdx, readyCall,
                    eventDerivers, loopVars, cursor, peerVars, beaconVars, lastEmitted,
                    metrics, faults >>

\* Line 139: where Start is after a sink's Stop returned an error.
AfterSinkStopError(pc) == "returned_err"

\* Lines 137-143: sink.Stop of the next sink; its error is returned at once, and
\* after the last sink Start returns nil.
StopSink(ok) ==
    /\ startPc = "stopSinks"
    /\ startIdx < config.nSinks
    /\ sinkState' = [sinkState EXCEPT ![startIdx + 1] = IF ok THEN "stopped" ELSE "stopFailed"]
    /\ startIdx' = startIdx + 1
    /\ startPc' = IF ~ok THEN AfterSinkStopError(startPc)
                  ELSE IF startIdx + 1 = config.nSinks THEN "returned_ok" ELSE startPc
    /\ UNCHANGED << windowVars, inputVars, driftVars, readyPc, readyIdx, readyCall, eventDerivers,
                    loopVars, cursor, peerVars, beaconVars, lastEmitted, metrics, faults >>

(* The clock drift: syncClockDrift (lines 232-247), run by the scheduler on a   *)
(* goroutine of its own every five minutes, and createNewClientMeta (184-216)   *)

\* Lines 233-241: ntp.Query answered and the response is valid; the job is about
\* to store the offset (a failed query or an invalid response changes nothing).
SyncClockDriftQuery(offset) ==
    /\ Running
    /\ cron.pc = "idle"
    /\ cron' = [pc |-> "writing", offset |-> offset]
    /\ UNCHANGED << windowVars, inputVars, clockDrift, clientMetas, orchVars, loopVars, cursor,
                    peerVars, beaconVars, lastEmitted, metrics, faults >>

\* Line 243: what the store does to the ClientMeta objects made so far.
SyncRefreshesMetas(metas, offset) ==
    [i \in DOMAIN metas |-> [metas[i] EXCEPT !.clockDrift = offset \div NsPerMs]]

MetasAfterSync(metas, offset) == metas

\* Line 243: c.clockDrift = response.ClockOffset, a plain store.
SyncClockDriftStore ==
    /\ Running
    /\ cron.pc = "writing"
    /\ clockDrift' = cron.offset
    /\ clientMetas' = MetasAfterSync(clientMetas, cron.offset)
    /\ cron' = [cron EXCEPT !.pc = "idle"]
    /\ UNCHANGED << windowVars, inputVars, orchVars, loopVars, cursor, peerVars, beaconVars,
                    lastEmitted, metrics, faults >>

\* Duration.Milliseconds and the conversion to uint64 (line 205), for a duration
\* that is not negative.
Milliseconds(d) == d \div NsPerMs

\* Lines 184-216: the ClientMeta, from the drift read at line 205 and the beacon's
\* network; the fields that come from the configuration and the build are the same
\* in every call and are left out.
NewClientMeta(drift, net) ==
    [nil |-> FALSE, clockDrift |-> Milliseconds(drift),
     networkName |-> net.name, networkId |-> net.id]

\* Line 205 reads c.clockDrift with no lock and no atomic: while the scheduler's
\* goroutine is at its store the read yields the value before or after it.
ReadClockDrift ==
    IF cron.pc = "writing" THEN {clockDrift, cron.offset} ELSE {clockDrift}

(* The readiness callback, lines 268-416 *)

\* The event type of the k-th deriver the callback builds (lines 293, 310, 327,
\* 344, 361, 378).
DeriverCannonType(k) == CannonTypes[k]

\* iterator.NewCheckpointIterator as called at lines 289-299 (and five more times):
\* every call makes a new iterator, id stands for its identity.
NewCheckpointIterator(id, networkName, networkID, cannonType, checkpointName) ==
    [id |-> id, networkName |-> networkName, networkID |-> networkID,
     cannonType |-> cannonType, checkpointName |-> checkpointName]

\* Lines 285-388: the six derivers, each with an iterator of its own and all with
\* the one ClientMeta (clientMeta is its place in clientMetas).
SharedIteratorDerivers(networkName, networkID, clientMeta) ==
    [k \in DeriverIds |->
        [cannonType |-> DeriverCannonType(k),
         iterator |-> NewCheckpointIterator(IF k = 6 THEN 5 ELSE k, networkName, networkID,
                          DeriverCannonType(IF k = 6 THEN 5 ELSE k), "finalized"),
         clientMeta |-> clientMeta,
         onEventsDerived |-> FALSE, onLocationUpdated |-> FALSE, started |-> FALSE]]

NewEventDerivers(networkName, networkID, clientMeta) ==
    [k \in DeriverIds |->
        [cannonType |-> DeriverCannonType(k),
         iterator |-> NewCheckpointIterator(k, networkName, networkID,
                                            DeriverCannonType(k), "finalized"),
         clientMeta |-> clientMeta,
         onEventsDerived |-> FALSE, onLocationUpdated |-> FALSE, started |-> FALSE]]

\* Lines 268-276: the beacon node reports ready (once, after beacon.Start); the
\* callback runs on the beacon's goroutine and enters createNewClientMeta, where
\* it is about to read c.clockDrift.
BeaconReady ==
    /\ Running
    /\ startPc \in {"waitSignal", "stopSinks"}
    /\ readyPc = "registered"
    /\ readyPc' = "createMeta"
    /\ UNCHANGED << windowVars, inputVars, driftVars, startPc, startIdx, sinkState, readyIdx, readyCall,
                    eventDerivers, loopVars, cursor, peerVars, beaconVars, lastEmitted,
                    metrics, faults >>

\* Lines 199-216 and 281-390: createNewClientMeta makes the ClientMeta, the callback
\* builds the derivers with it and stores them in c.eventDerivers.
CreateNewClientMeta(drift) ==
    /\ Running
    /\ readyPc = "createMeta"
    /\ drift \in ReadClockDrift
    /\ clientMetas' = Append(clientMetas, NewClientMeta(drift, network))
    /\ eventDerivers' = NewEventDerivers(network.name, ToString(network.id),
                                         Len(clientMetas) + 1)
    /\ readyPc' = "running"
    /\ readyIdx' = 0
    /\ readyCall' = 1
    /\ UNCHANGED << windowVars, inputVars, clockDrift, cron, startPc, startIdx, sinkState, loopVars,
                    cursor, peerVars, beaconVars, lastEmitted, metrics, faults >>

\* Lines 395-410: the calls of the loop's body on a deriver, in their order.
StartFirst == << "Start", "OnEventsDerived", "OnLocationUpdated" >>

ReadyCalls == << "OnEventsDerived", "OnLocationUpdated", "Start" >>

\* Lines 392-413: the loop goes on to the next call, and after the last call of
\* the body to the next deriver.
ReadyAdvance ==
    /\ readyCall' = IF readyCall = Len(ReadyCalls) THEN 1 ELSE readyCall + 1
    /\ readyIdx' = IF readyCall = Len(ReadyCalls) THEN readyIdx + 1 ELSE readyIdx

\* Lines 395-403: d.OnEventsDerived or d.OnLocationUpdated registers the callback
\* on the deriver the loop is at.
ReadyRegister ==
    /\ Running
    /\ readyPc = "running"
    /\ ReadyCalls[readyCall] # "Start"
    /\ LET k == readyIdx + 1 IN
       eventDerivers' = IF ReadyCalls[readyCall] = "OnEventsDerived"
                        THEN [eventDerivers EXCEPT ![k].onEventsDerived = TRUE]
                        ELSE [eventDerivers EXCEPT ![k].onLocationUpdated = TRUE]
    /\ ReadyAdvance
    /\ readyPc' = IF readyCall = Len(ReadyCalls) /\ readyIdx + 1 = NumDerivers
                  THEN "done" ELSE "running"
    /\ UNCHANGED << windowVars, inputVars, driftVars, startPc, startIdx, sinkState, loopVars, cursor,
                    peerVars, beaconVars, lastEmitted, metrics, faults >>

\* Lines 410-415: where the callback is after deriver.Start returned; last tells
\* whether that was the last call of the loop.
IgnoreDeriverStartError(ok, last) == IF last THEN "done" ELSE "running"

AfterDeriverStart(ok, last) == IF ~ok THEN "failed" ELSE IF last THEN "done" ELSE "running"

\* Lines 410-412: deriver.Start of the deriver the loop is at; a failed start ends
\* the callback with that error. Starting a deriver that the configuration disables
\* starts no extraction loop.
ReadyStartDeriver(ok) ==
    /\ Running
    /\ readyPc = "running"
    /\ ReadyCalls[readyCall] = "Start"
    /\ LET k == readyIdx + 1 IN
       /\ eventDerivers' = [eventDerivers EXCEPT ![k].started = ok]
       /\ dpc' = IF ok /\ k \in config.enabled THEN [dpc EXCEPT ![k] = "idle"] ELSE dpc
       /\ readyPc' = AfterDeriverStart(ok, readyCall = Len(ReadyCalls) /\ k = NumDerivers)
    /\ ReadyAdvance
    /\ UNCHANGED << windowVars, inputVars, driftVars, startPc, startIdx, sinkState, lease, batch,
                    decoration, fan, cursor, peerVars, beaconVars, lastEmitted, metrics,
                    faults >>

(* handleNewDecoratedEvents, lines 249-265, and the callback of lines 395-397 *)

\* Lines 250-258: the index of the sink the loop goes on with after sink i
\* returned; an error is logged and the loop goes on.
AbortOnError(i, err) == IF err THEN config.nSinks + 1 ELSE i + 1

NextSink(i, err) == i + 1

\* Line 264: what the handler returns, given the sinks that failed.
FirstError(failed) == IF failed = {} THEN "nil" ELSE "error"

HandlerResult(failed) == "nil"

\* Lines 251-257: the sink's per-sink error counter after a handle call of it;
\* the branch logs the error and touches no counter.
SinkErrorsAfter(count, err) == count

\* Lines 260-262: AddDecoratedEvent(1, ...) once per event of the batch; f.counted
\* is what the call has added to the decorated-event counter.
AddDecoratedEvents(f, n) == [f EXCEPT !.counted = @ + n]

\* Lines 395-397: the callback returns what the handler returns, when the handler
\* returns: f.result is set once line 264 is reached.
ReturnsAtOnce(f) == TRUE

CallbackReturned(f) == f.result # "none"

\* The handler from the point it is at up to its next sink.HandleNewDecoratedEvents
\* call (i is the sink to go on with), or to its end.
HandleNewDecoratedEvents(f, i, n) ==
    IF i <= config.nSinks
    THEN [f EXCEPT !.idx = i, !.busy = TRUE,
                   !.delivered = Append(@, [sink |-> i, events |-> n])]
    ELSE [AddDecoratedEvents(f, n) EXCEPT !.busy = FALSE,
                                          !.result = HandlerResult(f.failed)]

\* Lines 399-403: the location callback sets the deriver's location gauge.
SetDeriverLocation(m, location, cannonType) ==
    [m EXCEPT !.deriver_location[cannonType] = location]

(* The deriver's extraction loop, its iterator and the coordinator           *)
(* (specification, sections 4.2 to 4.4)                                      *)

Tag(d) == eventDerivers[d].iterator.cannonType

\* Iterator next(), steps 3 and 4: a wait when the cursor is past the finalized
\* checkpoint, else the cursor with a lease.
NextAtOrPastCheckpoint(cur, f) ==
    IF cur > f + 1
    THEN [kind |-> "wait", pos |-> -1, observed_fin |-> f, prev |-> cur]
    ELSE [kind |-> "lease", pos |-> cur, observed_fin |-> f, prev |-> cur]

IteratorNext(cur, f) ==
    IF cur > f
    THEN [kind |-> "wait", pos |-> -1, observed_fin |-> f, prev |-> cur]
    ELSE [kind |-> "lease", pos |-> cur, observed_fin |-> f, prev |-> cur]

\* Coordinator advance_cursor: compare-and-swap guarded by the observed value.
BlindAdvanceCursor(stored, new, prev) == [res |-> "OK", cur |-> new]

LastWriterWins(stored, new, prev) ==
    [res |-> IF stored = prev THEN "OK" ELSE "Conflict", cur |-> new]

AdvanceCursor(stored, new, prev) ==
    IF stored = prev THEN [res |-> "OK", cur |-> new]
                     ELSE [res |-> "Conflict", cur |-> stored]

\* The natural step of a position.
SamePosition(pos) == pos

NextPosition(pos) == pos + 1

\* beacon.finalized_checkpoint(): the latest finalized checkpoint the beacon knows.
HighestCheckpointSeen == finPeak

FinalizedCheckpoint == fin

\* next(): the iterator reads the stored cursor and the finalized checkpoint.
IterNext(d) ==
    /\ Running
    /\ dpc[d] = "idle"
    /\ lease' = [lease EXCEPT ![d] = IteratorNext(cursor[Tag(d)], FinalizedCheckpoint)]
    /\ dpc' = [dpc EXCEPT ![d] = IF lease'[d].kind = "wait" THEN "wait" ELSE "leased"]
    /\ UNCHANGED << windowVars, inputVars, driftVars, orchVars, batch, decoration, fan, cursor, peerVars, beaconVars,
                    lastEmitted, metrics, faults >>

\* decorate(events, client_meta, event_time): the events are stamped with the
\* ClientMeta the deriver was built with (lines 301, 318, 335, 352, 369, 386), as
\* it is at that time.
Decorate(d) == clientMetas[eventDerivers[d].clientMeta]

\* fetch_block(pos): NotAvailable, or a block with n sub-events of the deriver's
\* kind, which extract and decorate turn into a batch of n events.
FetchBlock(d, n) ==
    /\ Running
    /\ dpc[d] = "leased"
    /\ dpc' = [dpc EXCEPT ![d] = IF n = NoBatch THEN "skip" ELSE "derived"]
    /\ batch' = [batch EXCEPT ![d] = n]
    /\ decoration' = [decoration EXCEPT ![d] = IF n = NoBatch THEN NoMeta ELSE Decorate(d)]
    /\ UNCHANGED << windowVars, inputVars, driftVars, orchVars, lease, fan, cursor, peerVars, beaconVars,
                    lastEmitted, metrics, faults >>

\* A transient error of get_cursor, fetch_block or advance_cursor: the lease, if
\* any, is given up and the loop backs off.
TransientError(d) ==
    /\ Running
    /\ dpc[d] \in {"idle", "leased", "commit", "skip"}
    /\ faults < MaxFaults
    /\ faults' = faults + 1
    /\ dpc' = [dpc EXCEPT ![d] = "backoff"]
    /\ lease' = [lease EXCEPT ![d] = NoLease]
    /\ batch' = [batch EXCEPT ![d] = NoBatch]
    /\ decoration' = [decoration EXCEPT ![d] = NoMeta]
    /\ fan' = [fan EXCEPT ![d] = NoFan]
    /\ UNCHANGED << windowVars, inputVars, driftVars, orchVars, cursor, peerVars, beaconVars, lastEmitted,
                    metrics >>

\* on_events_derived(decorated): the deriver calls the callback registered at
\* lines 395-397, which runs the handler up to its first sink call.
Emit(d) ==
    /\ Running
    /\ dpc[d] = "derived"
    /\ eventDerivers[d].onEventsDerived
    /\ LET f == HandleNewDecoratedEvents(NoFan, 1, batch[d]) IN
       /\ fan' = [fan EXCEPT ![d] = f]
       /\ dpc' = [dpc EXCEPT ![d] = IF CallbackReturned(f) THEN "commit" ELSE "emit"]
    /\ lastEmitted' = [lastEmitted EXCEPT ![eventDerivers[d].cannonType] = lease[d].pos]
    /\ UNCHANGED << windowVars, inputVars, driftVars, orchVars, lease, batch, decoration, cursor, peerVars, beaconVars,
                    metrics, faults >>

\* Lines 251-258 and on: the sink's HandleNewDecoratedEvents returns, with an
\* error or without; the handler runs on to its next sink call or to its end.
SinkReturn(d, err) ==
    /\ Running
    /\ fan[d].busy
    /\ LET i == fan[d].idx
           f == HandleNewDecoratedEvents([fan[d] EXCEPT !.failed = IF err THEN @ \cup {i} ELSE @],
                           NextSink(i, err), batch[d])
       IN
       /\ fan' = [fan EXCEPT ![d] = f]
       /\ metrics' = [metrics EXCEPT !.sink_errors_total[i] = SinkErrorsAfter(@, err)]
       /\ dpc' = [dpc EXCEPT ![d] =
              IF dpc[d] = "emit" /\ CallbackReturned(f) THEN "commit" ELSE @]
    /\ UNCHANGED << windowVars, inputVars, driftVars, orchVars, lease, batch, decoration, cursor, peerVars, beaconVars,
                    lastEmitted, faults >>

\* commit(lease, pos.next()): after the callback returned without an error, or
\* for a position whose block is not available.
Commit(d) ==
    /\ Running
    /\ dpc[d] \in {"commit", "skip"}
    /\ dpc[d] = "commit" => fan[d].result # "error"
    /\ LET r == AdvanceCursor(cursor[Tag(d)], NextPosition(lease[d].pos), lease[d].prev) IN
       /\ cursor' = [cursor EXCEPT ![Tag(d)] = r.cur]
       /\ dpc' = [dpc EXCEPT ![d] = IF r.res = "OK" THEN "committed" ELSE "conflict"]
    /\ UNCHANGED << windowVars, inputVars, driftVars, orchVars, lease, batch, decoration, fan, peerVars, beaconVars,
                    lastEmitted, metrics, faults >>

\* After a commit that succeeded the location callback (lines 399-403) is called
\* for a position that was derived; the iterator is idle again.
AfterCommit(d) ==
    /\ Running
    /\ dpc[d] = "committed"
    /\ metrics' = IF batch[d] = NoBatch \/ ~eventDerivers[d].onLocationUpdated THEN metrics
                  ELSE SetDeriverLocation(metrics, lease[d].pos, eventDerivers[d].cannonType)
    /\ dpc' = [dpc EXCEPT ![d] = "idle"]
    /\ lease' = [lease EXCEPT ![d] = NoLease]
    /\ batch' = [batch EXCEPT ![d] = NoBatch]
    /\ decoration' = [decoration EXCEPT ![d] = NoMeta]
    /\ fan' = [fan EXCEPT ![d] = NoFan]
    /\ UNCHANGED << windowVars, inputVars, driftVars, orchVars, cursor, peerVars, beaconVars, lastEmitted, faults >>

\* After a wait hint, a conflict or a backoff the loop starts over: the lease and
\* the work in hand are dropped.
StartOver(d) ==
    /\ Running
    /\ dpc[d] \in {"wait", "conflict", "backoff"}
    /\ dpc' = [dpc EXCEPT ![d] = "idle"]
    /\ lease' = [lease EXCEPT ![d] = NoLease]
    /\ batch' = [batch EXCEPT ![d] = NoBatch]
    /\ decoration' = [decoration EXCEPT ![d] = NoMeta]
    /\ fan' = [fan EXCEPT ![d] = NoFan]
    /\ UNCHANGED << windowVars, inputVars, driftVars, orchVars, cursor, peerVars, beaconVars, lastEmitted, metrics,
                    faults >>

\* The beacon reports another finalized checkpoint (a smaller one is a regression).
Finalize(f) ==
    /\ f # fin
    /\ fin' = f
    /\ finPeak' = Max(finPeak, f)
    /\ UNCHANGED << windowVars, inputVars, driftVars, orchVars, loopVars, cursor, peerVars, lastEmitted, metrics,
                    faults >>

(* Another instance working on the same (network, event type) cursor *)

PeerNext ==
    /\ peerPc = "idle"
    /\ IteratorNext(cursor[config.peer], FinalizedCheckpoint).kind = "lease"
    /\ peerLease' = IteratorNext(cursor[config.peer], FinalizedCheckpoint)
    /\ peerPc' = "leased"
    /\ UNCHANGED << windowVars, inputVars, driftVars, orchVars, loopVars, cursor, beaconVars, lastEmitted, metrics,
                    faults >>

PeerCommit ==
    /\ peerPc = "leased"
    /\ LET r == AdvanceCursor(cursor[config.peer], NextPosition(peerLease.pos),
                              peerLease.prev) IN
       /\ cursor' = [cursor EXCEPT ![config.peer] = r.cur]
       /\ peerPc' = IF r.res = "OK" THEN "committed" ELSE "conflict"
    /\ UNCHANGED << windowVars, inputVars, driftVars, orchVars, loopVars, peerLease, beaconVars, lastEmitted,
                    metrics, faults >>

PeerStartOver ==
    /\ peerPc \in {"conflict", "committed"}
    /\ peerPc' = "idle"
    /\ peerLease' = NoLease
    /\ UNCHANGED << windowVars, inputVars, driftVars, orchVars, loopVars, cursor, beaconVars, lastEmitted, metrics,
                    faults >>

(* ---------------------------- specifications --------------------------- *)

Orchestrator ==
    \/ StartBegin
    \/ \E ok \in BOOLEAN : StartSink(ok)
    \/ \E ok \in BOOLEAN : BeaconStart(ok)
    \/ Signal
    \/ \E ok \in BOOLEAN : StopSink(ok)
    \/ BeaconReady
    \/ \E drift \in DriftOffsets : CreateNewClientMeta(drift)
    \/ ReadyRegister
    \/ \E ok \in BOOLEAN : ReadyStartDeriver(ok)

Cron ==
    \/ \E offset \in DriftOffsets : SyncClockDriftQuery(offset)
    \/ SyncClockDriftStore

Deriver(d) ==
    \/ IterNext(d)
    \/ \E n \in {NoBatch} \cup (0..MaxEvents) : FetchBlock(d, n)
    \/ TransientError(d)
    \/ Emit(d)
    \/ \E err \in BOOLEAN : SinkReturn(d, err)
    \/ Commit(d)
    \/ AfterCommit(d)
    \/ StartOver(d)

Peer == PeerNext \/ PeerCommit \/ PeerStartOver

\* Start, the readiness callback and the derivers it starts; the clock drift
\* stays what New made it.
Next ==
    \/ Orchestrator
    \/ \E d \in DeriverIds : Deriver(d)

Spec == Init /\ [][Next]_vars

\* The same with the scheduler's clock-drift job running beside them.
NextDrift ==
    \/ Orchestrator
    \/ Cron
    \/ \E d \in DeriverIds : Deriver(d)

SpecDrift == Init /\ [][NextDrift]_vars

\* The state the readiness callback leaves when every start succeeded, Start
\* waiting for its signal. The six derivers run the same loop and differ in the
\* event type that keys their cursor only, so the loop is followed for one of
\* them (the first built) on one network, against a checkpoint that moves and a
\* second instance that works on the same cursor.
InitLoop ==
    /\ config \in { c \in [nSinks : 0..MaxSinks, enabled : SUBSET DeriverIds,
                           peer : TagSet \cup {"none"}] :
                     /\ c.enabled = {1}
                     /\ c.peer \in {DeriverCannonType(k) : k \in c.enabled} }
    /\ network = [name |-> "mainnet", id |-> 1]
    /\ clockDrift = 0
    /\ cron = [pc |-> "idle", offset |-> 0]
    /\ clientMetas = << NewClientMeta(clockDrift, network) >>
    /\ readyCall = 1
    /\ decoration = [d \in DeriverIds |-> NoMeta]
    /\ startPc = "waitSignal"
    /\ startIdx = config.nSinks
    /\ sinkState = [s \in 1..config.nSinks |-> "started"]
    /\ readyPc = "done"
    /\ readyIdx = NumDerivers
    /\ eventDerivers = [k \in DeriverIds |->
           [NewEventDerivers(network.name, ToString(network.id), 1)[k] EXCEPT
               !.onEventsDerived = TRUE, !.onLocationUpdated = TRUE, !.started = TRUE]]
    /\ dpc = [d \in DeriverIds |-> IF d \in config.enabled THEN "idle" ELSE "off"]
    /\ lease = [d \in DeriverIds |-> NoLease]
    /\ batch = [d \in DeriverIds |-> NoBatch]
    /\ fan = [d \in DeriverIds |-> NoFan]
    /\ cursor \in [TagSet -> {0}]
    /\ peerPc = "idle"
    /\ peerLease = NoLease
    /\ fin = 0
    /\ finPeak = 0
    /\ lastEmitted = [t \in TagSet |-> -1]
    /\ metrics = [deriver_location |-> [t \in TagSet |-> -1],
                  sink_errors_total |-> [s \in 1..config.nSinks |-> 0]]
    /\ faults = 0
    /\ NoTimeWindow

NextLoop ==
    \/ \E d \in DeriverIds : Deriver(d)
    \/ \E f \in 0..MaxPos : Finalize(f)
    \/ Peer

SpecLoop == InitLoop /\ [][NextLoop]_vars

(* -------------------- pkg/wallclock/time_window.go ---------------------- *)

\* time.Time.Before, After and Sub, on instants counted from 0.
NotAfter(t, u) == t <= u

Before(t, u) == t < u

After(t, u) == t > u

Sub(t, u) == t - u

\* Lines 29-31 and 33-35, for the instant time.Now() returns.
EndsIn(w, now) == Sub(w.end, now)

StartsIn(w, now) == Sub(w.start, now)

\* Time passes; the clock does not step back.
Tick ==
    /\ clock < MaxTime
    /\ clock' = clock + 1
    /\ UNCHANGED << window, active, spans, inputVars, driftVars, orchVars, loopVars,
                    cursor, peerVars, beaconVars, lastEmitted, metrics, faults >>

\* Line 26, left operand: t.start.Before(time.Now()); when it is false the right
\* operand is not evaluated and Active returns false.
ActiveStart ==
    /\ active.pc = "idle"
    /\ active' = IF Before(window.start, clock)
                 THEN [NoCall EXCEPT !.pc = "end", !.now1 = clock]
                 ELSE [NoCall EXCEPT !.pc = "returned", !.now1 = clock]
    /\ UNCHANGED << window, clock, spans, inputVars, driftVars, orchVars, loopVars,
                    cursor, peerVars, beaconVars, lastEmitted, metrics, faults >>

\* Line 26, right operand: t.end.After(time.Now()), a second reading of the clock.
ActiveEnd ==
    /\ active.pc = "end"
    /\ active' = [active EXCEPT !.pc = "returned", !.now2 = clock,
                                !.result = After(window.end, clock)]
    /\ UNCHANGED << window, clock, spans, inputVars, driftVars, orchVars, loopVars,
                    cursor, peerVars, beaconVars, lastEmitted, metrics, faults >>

\* Lines 29-31: a call of EndsIn.
CallEndsIn ==
    /\ spans' = [spans EXCEPT !.endsInAt = clock, !.endsIn = EndsIn(window, clock)]
    /\ spans' # spans
    /\ UNCHANGED << window, clock, active, inputVars, driftVars, orchVars, loopVars,
                    cursor, peerVars, beaconVars, lastEmitted, metrics, faults >>

\* Lines 33-35: a call of StartsIn.
CallStartsIn ==
    /\ spans' = [spans EXCEPT !.startsInAt = clock, !.startsIn = StartsIn(window, clock)]
    /\ spans' # spans
    /\ UNCHANGED << window, clock, active, inputVars, driftVars, orchVars, loopVars,
                    cursor, peerVars, beaconVars, lastEmitted, metrics, faults >>

\* Lines 10-15: NewTimeWindow, for every start and end within the bounds, also
\* ones where the end is not after the start; no Cannon is started beside it.
InitWindow ==
    /\ New
    /\ config = [nSinks |-> 0, enabled |-> {}, peer |-> "none"]
    /\ network = [name |-> "mainnet", id |-> 1]
    /\ window \in [start : 0..MaxTime, end : 0..MaxTime]
    /\ clock = 0
    /\ active = NoCall
    /\ spans = NoSpans

NextWindow ==
    \/ Tick
    \/ ActiveStart
    \/ ActiveEnd
    \/ CallEndsIn
    \/ CallStartsIn

SpecWindow == InitWindow /\ [][NextWindow]_vars

(* -------------------------------- claims -------------------------------- *)

Started == {d \in DeriverIds : dpc[d] # "off"}

SinkSeq == [i \in 1..config.nSinks |-> i]

\* The handler of deriver d's batch has reached its return (line 264).
HandlerDone(d) == fan[d].result # "none"

\* Deriver d calls the on-events callback in this step.
EmitStep(d) == dpc[d] = "derived" /\ dpc'[d] # "derived"

\* Deriver d's iterator answers a next() call in this step.
NextStep(d) == dpc[d] = "idle" /\ dpc'[d] \in {"leased", "wait"}

\* C1: in every fan-out the sinks are handed the batch one after another in the
\* configured order, each at most once and each the same batch; when the handler
\* returns every configured sink has been handed it exactly once, whichever of
\* them failed.
C1_FanOutReachesEverySink ==
    \A d \in Started :
        /\ Len(fan[d].delivered) = fan[d].idx
        /\ \A j \in 1..Len(fan[d].delivered) :
              fan[d].delivered[j] = [sink |-> j, events |-> batch[d]]
        /\ fan[d].failed \subseteq 1..fan[d].idx
        /\ HandlerDone(d) => [j \in 1..Len(fan[d].delivered) |-> fan[d].delivered[j].sink] = SinkSeq

\* C1 witness: of two sinks the first failed, and the handler returned after the
\* second was handed the batch too.
C1_Witness ==
    \E d \in Started :
        /\ config.nSinks = 2
        /\ HandlerDone(d)
        /\ 1 \in fan[d].failed
        /\ Len(fan[d].delivered) = 2
        /\ batch[d] = 1

\* C2: the on-events callback returns nil to the deriver whatever sinks failed,
\* so a deriver whose callback returned is never held back from its commit.
C2_CallbackReportsSuccess ==
    \A d \in Started :
        /\ fan[d].result \in {"none", "nil"}
        /\ dpc[d] \in {"commit", "committed", "conflict"} /\ batch[d] # NoBatch
              => fan[d].result = "nil"

\* C2 witness: every sink failed, the callback returned nil and the commit of the
\* position went through.
C2_Witness ==
    \E d \in Started :
        /\ config.nSinks = 2
        /\ fan[d].failed = {1, 2}
        /\ fan[d].result = "nil"
        /\ dpc[d] = "committed"

\* C3: the fan-out is synchronous. A deriver that is past the callback for the
\* batch of a position (about to commit it, or having committed it) has had every
\* sink's handle call return; and while a handle call is running the deriver is
\* still inside the callback, so it has not committed the position.
C3_CommitOnlyAfterFanOut ==
    \A d \in Started :
        /\ dpc[d] \in {"commit", "committed", "conflict"} /\ batch[d] # NoBatch
              => /\ ~fan[d].busy
                 /\ HandlerDone(d)
                 /\ fan[d].idx = config.nSinks
        /\ fan[d].busy => dpc[d] = "emit" /\ ~HandlerDone(d)
        /\ dpc[d] = "emit" => fan[d].busy /\ lease[d].kind = "lease"

\* C3 witness: a sink's handle call is running for a batch while the cursor still
\* is at the batch's position.
C3_Witness ==
    \E d \in Started :
        /\ fan[d].busy
        /\ fan[d].idx = 2
        /\ dpc[d] = "emit"
        /\ cursor[Tag(d)] = lease[d].pos
        /\ lease[d].pos = 1

\* C4: a next() call that finds the stored cursor cur and the finalized checkpoint
\* fin returns the position cur under a lease when cur <= fin, and a wait hint and
\* no position when cur > fin.
C4_NextBoundedByCheckpoint ==
    [][\A d \in DeriverIds :
          NextStep(d) =>
              /\ lease'[d].prev = cursor[Tag(d)]
              /\ lease'[d].observed_fin = fin
              /\ cursor[Tag(d)] <= fin => /\ dpc'[d] = "leased"
                                          /\ lease'[d].kind = "lease"
                                          /\ lease'[d].pos = cursor[Tag(d)]
              /\ cursor[Tag(d)] > fin => /\ dpc'[d] = "wait"
                                         /\ lease'[d].kind = "wait"
                                         /\ lease'[d].pos = -1]_vars

\* C4 witness: the position equal to the checkpoint was emitted, and the next call,
\* with the cursor one past the checkpoint, got a wait hint.
C4_Witness ==
    \E d \in Started :
        /\ dpc[d] = "wait"
        /\ lease[d].prev = lease[d].observed_fin + 1
        /\ lastEmitted[eventDerivers[d].cannonType] = lease[d].observed_fin
        /\ fin = lease[d].observed_fin

C8_NoPositionPastRegressedCheckpoint ==
    [][\A d \in DeriverIds :
          NextStep(d) /\ fin < finPeak =>
              /\ lease'[d].pos \notin (fin + 1)..finPeak
              /\ cursor[Tag(d)] \in (fin + 1)..finPeak => lease'[d].kind = "wait"]_vars

\* C8 witness: the checkpoint fell back from 2 and the iterator, its cursor in
\* between, answered with a wait hint.
C8_Witness ==
    \E d \in Started :
        /\ finPeak = 2
        /\ fin < 2
        /\ dpc[d] = "wait"
        /\ lease[d].observed_fin = fin
        /\ lease[d].prev \in (fin + 1)..finPeak

\* C9 as stated: a sink whose handle call failed in the running fan-out has had
\* its error counter incremented.
C9_SinkErrorCounted ==
    \A d \in Started :
        \A i \in fan[d].failed : metrics.sink_errors_total[i] >= 1

\* C10: c.eventDerivers is nil until the readiness callback runs; from then on it
\* holds six derivers, one per event type, each with an iterator of its own that
\* was built for its event type and the beacon's network name and id.
C10_SixDeriversAfterReadiness ==
    /\ readyPc \in {"none", "registered", "createMeta"} => eventDerivers = << >>
    /\ readyPc \in {"running", "done", "failed"} =>
          /\ DOMAIN eventDerivers = DeriverIds
          /\ {eventDerivers[k].cannonType : k \in DeriverIds} = TagSet
          /\ \A j, k \in DeriverIds :
                j # k => /\ eventDerivers[j].cannonType # eventDerivers[k].cannonType
                         /\ eventDerivers[j].iterator.id # eventDerivers[k].iterator.id
          /\ \A k \in DeriverIds :
                /\ eventDerivers[k].iterator.cannonType = eventDerivers[k].cannonType
                /\ eventDerivers[k].iterator.networkName = network.name
                /\ eventDerivers[k].iterator.networkID = ToString(network.id)
                /\ eventDerivers[k].iterator.checkpointName = "finalized"

\* C10 witness: the callback has run to its end and the six derivers are there.
C10_Witness ==
    /\ readyPc = "done"
    /\ Len(eventDerivers) = NumDerivers
    /\ network.name = "holesky"

\* Deriver d decorates the batch of a block it fetched in this step.
DecorateStep(d) == dpc[d] = "leased" /\ dpc'[d] = "derived"

\* C11: createNewClientMeta is called once, in the readiness callback: there is no
\* ClientMeta before the callback made it and one from then on; all six derivers
\* are built with that one; no step changes a field of it once it is made, the
\* clock-drift job's store included; and the ClientMeta stamped on a batch is that
\* one.
C11_ClientMetaBuiltOnce ==
    [][/\ clientMetas # << >> => clientMetas' = clientMetas
       /\ readyPc' \in {"none", "registered", "createMeta"} => clientMetas' = << >>
       /\ readyPc' \in {"running", "done", "failed"} =>
             /\ Len(clientMetas') = 1
             /\ \A k \in DeriverIds : eventDerivers'[k].clientMeta = 1
       /\ \A d \in DeriverIds :
             decoration'[d] # NoMeta =>
                 /\ clientMetas' # << >>
                 /\ decoration'[d] = clientMetas'[1]
                 /\ decoration'[d].networkName = network.name
                 /\ decoration'[d].networkId = network.id]_vars

\* C11 witness: a batch was decorated after the clock-drift job stored a drift that
\* is not the one of the ClientMeta made at readiness, and carries that ClientMeta.
C11_Witness ==
    \E d \in Started :
        /\ readyPc = "done"
        /\ dpc[d] = "emit"
        /\ decoration[d] = clientMetas[1]
        /\ Milliseconds(clockDrift) # clientMetas[1].clockDrift

\* C12 as stated: the events of a batch are stamped with the clock drift that
\* c.clockDrift holds when the batch is decorated.
C12_EventsCarryLiveDrift ==
    [][\A d \in DeriverIds :
          DecorateStep(d) => decoration'[d].clockDrift = Milliseconds(clockDrift)]_vars

\* C13 as stated: the clock-drift job is never at its store of c.clockDrift while
\* the readiness callback is at its read of it in createNewClientMeta.
C13_DriftAccessExcluded == ~(cron.pc = "writing" /\ readyPc = "createMeta")

\* The sinks Stop has been called on.
StopCalled == {i \in 1..config.nSinks : sinkState[i] \in {"stopped", "stopFailed"}}

\* The sinks Start has been called on and has returned nil.
StartSucceeded == {i \in 1..config.nSinks : sinkState[i] \in {"started", "stopped", "stopFailed"}}

\* Start has returned after it caught a signal.
ReturnedAfterSignal == ~Running /\ (startPc = "returned_ok" \/ StopCalled # {})

\* C14 as stated: when Start has returned after a signal, Stop has been called on
\* every configured sink.
C14_EverySinkStopped == ReturnedAfterSignal => StopCalled = 1..config.nSinks

\* Deriver d's iterator commits in this step.
CommitStep(d) == dpc[d] \in {"commit", "skip"} /\ dpc'[d] \in {"committed", "conflict"}

\* Deriver d's batch is handed to a sink in this step, and Stop has been called on
\* that sink before.
HandedToStoppedSink(d) ==
    /\ Len(fan'[d].delivered) > Len(fan[d].delivered)
    /\ fan'[d].idx \in StopCalled

\* C15 as stated: once the signal is caught no deriver commits, and no batch is
\* handed to a sink that Stop has been called on.
C15_NoWorkAfterSignal ==
    [][startPc = "stopSinks" =>
          \A d \in DeriverIds : ~CommitStep(d) /\ ~HandedToStoppedSink(d)]_vars

\* C16: a deriver whose Start has been called and returned nil, and a deriver whose
\* extraction loop runs, has both its callbacks registered; the callback registers
\* the on-events callback of a deriver before its on-location callback.
C16_RegisteredBeforeStart ==
    \A k \in DOMAIN eventDerivers :
        /\ eventDerivers[k].started \/ dpc[k] # "off"
              => eventDerivers[k].onEventsDerived /\ eventDerivers[k].onLocationUpdated
        /\ eventDerivers[k].onLocationUpdated => eventDerivers[k].onEventsDerived
        /\ readyPc = "failed" /\ k = readyIdx
              => eventDerivers[k].onEventsDerived /\ eventDerivers[k].onLocationUpdated

\* C16 witness: the first deriver is handing a batch to a sink while the callback
\* has registered one callback of a later deriver and not yet the other.
C16_Witness ==
    /\ readyPc = "running"
    /\ dpc[1] = "emit"
    /\ eventDerivers[1].started
    /\ eventDerivers[readyIdx + 1].onEventsDerived
    /\ ~eventDerivers[readyIdx + 1].onLocationUpdated
    /\ ~eventDerivers[readyIdx + 1].started

\* C17: the readiness callback is registered before the first sink is started, and
\* the beacon is started, the callback runs, derivers exist and a batch is handed
\* to a sink only when Start has been called on every sink and returned nil.
C17_SinksStartedFirst ==
    /\ startPc # "new" => readyPc # "none"
    /\ sinkState # [i \in 1..config.nSinks |-> "new"] => readyPc # "none"
    /\ (\/ startPc \in {"waitSignal", "stopSinks", "returned_ok"}
        \/ readyPc \notin {"none", "registered"}
        \/ eventDerivers # << >>
        \/ \E d \in DeriverIds : dpc[d] # "off" \/ fan[d].delivered # << >>)
          => StartSucceeded = 1..config.nSinks

\* C17 witness: with two sinks, both started, a deriver's batch has reached the
\* second while Start waits for its signal.
C17_Witness ==
    /\ config.nSinks = 2
    /\ startPc = "waitSignal"
    /\ \E d \in Started : Len(fan[d].delivered) = 2 /\ batch[d] = 1

\* C18: when the Start of a sink has failed, Start has returned an error; the sinks
\* before it are started and not stopped, the sinks after it were never started,
\* and the readiness callback has not run: no deriver exists and none runs.
C18_SinkStartErrorReturned ==
    \A i \in 1..config.nSinks :
        sinkState[i] = "startFailed" =>
            /\ startPc = "returned_err"
            /\ \A j \in 1..(i - 1) : sinkState[j] = "started"
            /\ \A j \in (i + 1)..config.nSinks : sinkState[j] = "new"
            /\ readyPc = "registered"
            /\ eventDerivers = << >>
            /\ clientMetas = << >>
            /\ \A d \in DeriverIds : dpc[d] = "off"

\* C18 witness: of two sinks the first started and the Start of the second failed.
C18_Witness ==
    /\ config.nSinks = 2
    /\ sinkState = << "started", "startFailed" >>
    /\ startPc = "returned_err"

\* C19: the callback starts the derivers in the order they were built: the ones it
\* is past are started with their callbacks registered, the ones it has not come
\* to are not started and have no callback; when the Start of a deriver failed the
\* callback is over with that deriver the last it touched; and c.eventDerivers
\* holds the six derivers throughout.
C19_DeriverStartErrorReturned ==
    readyPc \in {"running", "done", "failed"} =>
        /\ Len(eventDerivers) = NumDerivers
        /\ readyPc = "done" <=> (readyIdx = NumDerivers /\ eventDerivers[NumDerivers].started)
        /\ \A j \in DeriverIds :
              /\ j <= readyIdx /\ ~(readyPc = "failed" /\ j = readyIdx) =>
                    /\ eventDerivers[j].started
                    /\ eventDerivers[j].onEventsDerived
                    /\ eventDerivers[j].onLocationUpdated
                    /\ j \in config.enabled => dpc[j] # "off"
              /\ readyPc = "failed" /\ j = readyIdx =>
                    ~eventDerivers[j].started /\ dpc[j] = "off"
              /\ j > readyIdx => ~eventDerivers[j].started /\ dpc[j] = "off"
              /\ j > readyIdx + 1 \/ (readyPc = "failed" /\ j > readyIdx) =>
                    ~eventDerivers[j].onEventsDerived /\ ~eventDerivers[j].onLocationUpdated

\* C19 witness: the Start of the third deriver failed; the first two are started,
\* the first one's loop runs, and the last three were not touched.
C19_Witness ==
    /\ readyPc = "failed"
    /\ readyIdx = 3
    /\ eventDerivers[1].started /\ eventDerivers[2].started
    /\ ~eventDerivers[3].started
    /\ dpc[1] = "committed"
    /\ ~eventDerivers[4].onEventsDerived

\* The window w contains the instant t: it starts before it and ends after it.
Contains(w, t) == w.start < t /\ t < w.end

\* The instants a call of Active that has returned read the clock at.
ActiveReads == {active.now1, active.now2} \ {NoRead}

\* C20 as stated: Active returns whether the window contains the current instant,
\* for each instant the call took as the current one.
C20_ActiveAtOneInstant ==
    active.pc = "returned" => \A t \in ActiveReads : active.result = Contains(window, t)

\* C20 as amended: Active reads the clock twice and returns true exactly when the
\* window starts before the first reading and ends after the second. When it
\* returns true the window contains every instant from the first reading to the
\* second, and StartsIn is negative and EndsIn positive at each of them; when it
\* returns false the window does not contain one of the readings; a window that
\* starts at the first reading, ends at a reading, or ends no later than it starts
\* is not active.
C20_ActiveBetweenReads ==
    active.pc = "returned" =>
        /\ active.result <=> /\ window.start < active.now1
                             /\ active.now2 # NoRead
                             /\ window.end > active.now2
        /\ active.result =>
              \A t \in active.now1..active.now2 :
                  /\ Contains(window, t)
                  /\ StartsIn(window, t) < 0
                  /\ EndsIn(window, t) > 0
                  /\ spans.startsInAt = t => spans.startsIn < 0
                  /\ spans.endsInAt = t => spans.endsIn > 0
        /\ ~active.result => \E t \in ActiveReads : ~Contains(window, t)
        /\ window.start = active.now1 \/ window.end \in ActiveReads => ~active.result
        /\ window.end <= window.start => ~active.result

\* C20 witness: the window contained the first reading and ended at the second, and
\* Active returned false.
C20_Witness ==
    /\ active.pc = "returned"
    /\ ~active.result
    /\ Contains(window, active.now1)
    /\ window.end = active.now2

====
